---- MODULE Spec2Model ----
(***************************************************************************)
(* Model of git_patch_repair.py: the clean -> parse -> validate/repair ->  *)
(* render pipeline, the per-hunk validator and the iteration controller.   *)
(*                                                                         *)
(* Text is a sequence of one-character strings; a line is such a sequence  *)
(* that keeps its terminator "\n" (str.splitlines(keepends=True)).         *)
(* An event is a log entry without the free-form "data" field.             *)
(***************************************************************************)
EXTENDS Integers, Sequences, FiniteSets, TLC

\* ------------------------------------------------------------------ bounds
MaxBody == 3
MaxRaw == 3
MaxLines == 4
MaxIterLines == 3
MaxIters == 3

\* ------------------------------------------------- Python string primitives
NL == "\n"
Whitespace == {" ", "\t", "\n", "\r"}
DigitSeq == <<"0", "1", "2", "3", "4", "5", "6", "7", "8", "9">>
Digits == {DigitSeq[k] : k \in 1..10}
DigitVal(c) == (CHOOSE k \in 1..10 : DigitSeq[k] = c) - 1

startswith(s, p) == Len(s) >= Len(p) /\ SubSeq(s, 1, Len(p)) = p

RECURSIVE rstrip(_)
rstrip(s) ==
    IF s # <<>> /\ s[Len(s)] \in Whitespace
    THEN rstrip(SubSeq(s, 1, Len(s) - 1))
    ELSE s

RECURSIVE rstrip_nl(_)
rstrip_nl(s) ==
    IF s # <<>> /\ s[Len(s)] = NL
    THEN rstrip_nl(SubSeq(s, 1, Len(s) - 1))
    ELSE s

RECURSIVE lstrip(_)
lstrip(s) ==
    IF s # <<>> /\ s[1] \in Whitespace
    THEN lstrip(Tail(s))
    ELSE s

strip(s) == lstrip(rstrip(s))

\* int(<digits>)
RECURSIVE int(_)
int(ds) ==
    IF ds = <<>> THEN 0
    ELSE 10 * int(SubSeq(ds, 1, Len(ds) - 1)) + DigitVal(ds[Len(ds)])

\* str(<non-negative int>), as an f-string renders it
RECURSIVE str(_)
str(n) ==
    IF n < 10 THEN <<DigitSeq[n + 1]>>
    ELSE str(n \div 10) \o <<DigitSeq[(n % 10) + 1]>>

\* "".join(lines)
RECURSIVE join(_)
join(lines) ==
    IF lines = <<>> THEN <<>> ELSE Head(lines) \o join(Tail(lines))

\* text.splitlines(keepends=True); "\n" is the only line boundary of the
\* alphabet used here.
RECURSIVE splitFrom(_, _, _)
splitFrom(text, i, start) ==
    IF i > Len(text)
    THEN IF start <= Len(text) THEN <<SubSeq(text, start, Len(text))>> ELSE <<>>
    ELSE IF text[i] = NL
         THEN <<SubSeq(text, start, i)>> \o splitFrom(text, i + 1, i + 1)
         ELSE splitFrom(text, i + 1, start)

splitlines(text) == splitFrom(text, 1, 1)

\* ------------------------------------------------------------- event log
Event(code, phase, message) ==
    [code |-> code, phase |-> phase, message |-> message]

\* log(): the entry gets the value CURRENT_ITERATION has when it is created
Stamp(events, it) ==
    [k \in 1..Len(events) |->
        [code |-> events[k].code, phase |-> events[k].phase,
         message |-> events[k].message, iteration |-> it]]

\* ------------------------------------------------- hunk header pattern
\* r"@@ -\d+,(?P<old>\d+) \+\d+,(?P<new>\d+) @@"
RECURSIVE DigitsEnd(_, _)
DigitsEnd(s, i) ==
    IF i <= Len(s) /\ s[i] \in Digits THEN DigitsEnd(s, i + 1) ELSE i

LitAt(s, i, lit) ==
    i + Len(lit) - 1 <= Len(s) /\ SubSeq(s, i, i + Len(lit) - 1) = lit

HeaderMatchAt(s, i) ==
    LET a1 == i + 4
        a2 == DigitsEnd(s, a1)
        b1 == a2 + 1
        b2 == DigitsEnd(s, b1)
        c1 == b2 + 2
        c2 == DigitsEnd(s, c1)
        d1 == c2 + 1
        d2 == DigitsEnd(s, d1)
        ok == /\ LitAt(s, i, <<"@", "@", " ", "-">>)
              /\ a2 > a1
              /\ LitAt(s, a2, <<",">>)
              /\ b2 > b1
              /\ LitAt(s, b2, <<" ", "+">>)
              /\ c2 > c1
              /\ LitAt(s, c2, <<",">>)
              /\ d2 > d1
              /\ LitAt(s, d2, <<" ", "@", "@">>)
    IN  IF ok
        THEN [ok |-> TRUE, old |-> SubSeq(s, b1, b2 - 1),
              new |-> SubSeq(s, d1, d2 - 1), end |-> d2 + 3]
        ELSE [ok |-> FALSE, old |-> <<>>, new |-> <<>>, end |-> i]

\* re.match(pattern, header): anchored at the start of the header only
re_match(header) == HeaderMatchAt(header, 1)

\* re.sub(pattern, repl, header): every non-overlapping occurrence, left to right
RECURSIVE subFrom(_, _, _)
subFrom(s, i, repl) ==
    IF i > Len(s) THEN <<>>
    ELSE LET m == HeaderMatchAt(s, i)
         IN  IF m.ok THEN repl \o subFrom(s, m.end, repl)
             ELSE <<s[i]>> \o subFrom(s, i + 1, repl)

re_sub(repl, header) == subFrom(header, 1, repl)

\* the start offsets written as 1 instead of 0
RepairedSpanTextFromOne(expected_old, expected_new) ==
    <<"@", "@", " ", "-", "1", ",">> \o str(expected_old)
        \o <<" ", "+", "1", ",">> \o str(expected_new) \o <<" ", "@", "@">>

\* the two spans written in each other's place
RepairedSpanTextSwapped(expected_old, expected_new) ==
    <<"@", "@", " ", "-", "0", ",">> \o str(expected_new)
        \o <<" ", "+", "0", ",">> \o str(expected_old) \o <<" ", "@", "@">>

\* f"@@ -0,{expected_old} +0,{expected_new} @@"
RepairedSpanText(expected_old, expected_new) ==
    <<"@", "@", " ", "-", "0", ",">> \o str(expected_old)
        \o <<" ", "+", "0", ",">> \o str(expected_new) \o <<" ", "@", "@">>

\* ------------------------------------------------------------ data model
Hunk(header_line) == [header |-> header_line, body |-> <<>>]
FileDiff(header) == [header |-> header, headers |-> <<>>, hunks |-> <<>>]

NoNewlinePrefix ==
    <<"\\", " ", "N", "o", " ", "n", "e", "w", "l", "i", "n", "e", " ",
      "a", "t", " ", "e", "n", "d", " ", "o", "f", " ", "f", "i", "l", "e">>

\* the kind of a body line, as the data model defines the five kinds
LineKind(line) ==
    IF startswith(line, <<" ">>) THEN "Context"
    ELSE IF startswith(line, <<"-">>) THEN "Removed"
    ELSE IF startswith(line, <<"+">>) /\ strip(line) # <<"+">> THEN "Added"
    ELSE IF startswith(line, NoNewlinePrefix) THEN "NoNewlineMarker"
    ELSE "Unexpected"

CountKind(body, kind) ==
    Cardinality({k \in 1..Len(body) : LineKind(body[k]) = kind})

\* _count_body_lines: one pass over hunk.body, first matching branch wins
RECURSIVE countFrom(_, _, _)
countFrom(body, k, acc) ==
    IF k > Len(body) THEN acc
    ELSE LET line == body[k]
         IN  countFrom(body, k + 1,
                IF startswith(line, <<" ">>)
                THEN [acc EXCEPT !.context = @ + 1]
                ELSE IF startswith(line, <<"-">>)
                THEN [acc EXCEPT !.removed = @ + 1]
                ELSE IF startswith(line, <<"+">>) /\ strip(line) # <<"+">>
                THEN [acc EXCEPT !.added = @ + 1]
                ELSE IF startswith(line, NoNewlinePrefix)
                THEN acc
                ELSE [acc EXCEPT !.has_unexpected = TRUE])

\* a blank "+" line counted as an added line
countBlankPlusAsAdded(hunk) ==
    [context |-> CountKind(hunk.body, "Context"),
     removed |-> CountKind(hunk.body, "Removed"),
     added |-> Cardinality({k \in 1..Len(hunk.body) :
                                startswith(hunk.body[k], <<"+">>)}),
     has_unexpected |->
        \E k \in 1..Len(hunk.body) :
            LineKind(hunk.body[k]) = "Unexpected"
                /\ ~startswith(hunk.body[k], <<"+">>)]

\* the else branch left out: no line is ever flagged as unexpected
countNeverUnexpected(hunk) ==
    [countFrom(hunk.body, 1,
        [context |-> 0, removed |-> 0, added |-> 0, has_unexpected |-> FALSE])
     EXCEPT !.has_unexpected = FALSE]

count_body_lines(hunk) ==
    countFrom(hunk.body, 1,
        [context |-> 0, removed |-> 0, added |-> 0, has_unexpected |-> FALSE])

CountedOldOf(hunk) == count_body_lines(hunk).context + count_body_lines(hunk).removed
CountedNewOf(hunk) == count_body_lines(hunk).context + count_body_lines(hunk).added

\* the header rewritten with the spans it declared instead of the counted ones
maybeFixWritesDeclared(hunk, file_header, old_span, new_span, context, removed, added) ==
    LET expected_old == context + removed
        expected_new == context + added
    IN  IF expected_old # old_span \/ expected_new # new_span
        THEN [repaired |-> TRUE,
              old_span |-> expected_old,
              new_span |-> expected_new,
              hunk |-> [hunk EXCEPT !.header =
                            re_sub(RepairedSpanText(old_span, new_span), hunk.header)],
              events |-> <<Event("HUNK_HEADER_SPAN_REPAIRED", "validate",
                                 "Repaired hunk header span values")>>]
        ELSE [repaired |-> FALSE, old_span |-> old_span, new_span |-> new_span,
              hunk |-> hunk, events |-> <<>>]

\* `and` in place of `or`: a repair only when both spans mismatch
maybeFixOnlyBothMismatch(hunk, file_header, old_span, new_span, context, removed, added) ==
    LET expected_old == context + removed
        expected_new == context + added
    IN  IF expected_old # old_span /\ expected_new # new_span
        THEN [repaired |-> TRUE,
              old_span |-> expected_old,
              new_span |-> expected_new,
              hunk |-> [hunk EXCEPT !.header =
                            re_sub(RepairedSpanText(expected_old, expected_new),
                                   hunk.header)],
              events |-> <<Event("HUNK_HEADER_SPAN_REPAIRED", "validate",
                                 "Repaired hunk header span values")>>]
        ELSE [repaired |-> FALSE, old_span |-> old_span, new_span |-> new_span,
              hunk |-> hunk, events |-> <<>>]

\* _maybe_fix_span_header: returns (repaired, old_span, new_span); the hunk it
\* mutates in place and the events it logs are returned with them.
maybe_fix_span_header(hunk, file_header, old_span, new_span, context, removed, added) ==
    LET expected_old == context + removed
        expected_new == context + added
    IN  IF expected_old # old_span \/ expected_new # new_span
        THEN LET new_header ==
                     re_sub(RepairedSpanText(expected_old, expected_new), hunk.header)
             IN  [repaired |-> TRUE,
                  old_span |-> expected_old,
                  new_span |-> expected_new,
                  hunk |-> [hunk EXCEPT !.header = new_header],
                  events |-> <<Event("HUNK_HEADER_SPAN_REPAIRED", "validate",
                                     "Repaired hunk header span values")>>]
        ELSE [repaired |-> FALSE, old_span |-> old_span, new_span |-> new_span,
              hunk |-> hunk, events |-> <<>>]

\* validate_hunk after the header matched: lines 291-403, with the spans
\* int(match.group(...)) and the counts of _count_body_lines
validateCounted(hunk, file_header, allow_repairs, old_span, new_span, c) ==
    LET unexpectedEv ==
            IF c.has_unexpected
            THEN <<Event("HUNK_INVALID_UNEXPECTED_LINE", "validate",
                         "Unexpected line type in hunk body")>>
            ELSE <<>>
        expected_old == c.context + c.removed
        expected_new == c.context + c.added
        oldEv(msg) ==
            IF expected_old # old_span
            THEN <<Event("HUNK_INVALID_OLD_SPAN_MISMATCH", "validate", msg)>>
            ELSE <<>>
        newEv(msg) ==
            IF expected_new # new_span
            THEN <<Event("HUNK_INVALID_NEW_SPAN_MISMATCH", "validate", msg)>>
            ELSE <<>>
        afterFix(fix) ==
            IF fix.repaired
            THEN [ok |-> TRUE, hunk |-> fix.hunk,
                  events |-> unexpectedEv \o fix.events \o
                      <<Event("HUNK_VALID_AFTER_REPAIR", "validate",
                              "Hunk became valid after header span repair")>>]
            ELSE [ok |-> FALSE, hunk |-> fix.hunk,
                  events |-> unexpectedEv \o fix.events
                      \o oldEv("Old span mismatch in hunk header (repair failed)")
                      \o newEv("New span mismatch in hunk header (repair failed)")]
    IN  IF c.has_unexpected /\ ~allow_repairs
        THEN [ok |-> FALSE, hunk |-> hunk, events |-> unexpectedEv]
        ELSE IF expected_old = old_span /\ expected_new = new_span
                /\ ~c.has_unexpected
        THEN [ok |-> TRUE, hunk |-> hunk,
              events |-> unexpectedEv \o
                  <<Event("HUNK_VALID", "validate", "Hunk is structurally valid")>>]
        ELSE IF ~allow_repairs
        THEN [ok |-> FALSE, hunk |-> hunk,
              events |-> unexpectedEv
                  \o oldEv("Old span mismatch in hunk header")
                  \o newEv("New span mismatch in hunk header")]
        ELSE afterFix(maybe_fix_span_header(hunk, file_header, old_span, new_span,
                                            c.context, c.removed, c.added))

\* a malformed header reconstructed from the body when repairs are allowed
validateMatchedReconstructs(hunk, file_header, allow_repairs, match) ==
    IF ~match.ok /\ ~allow_repairs
    THEN [ok |-> FALSE, hunk |-> hunk,
          events |-> <<Event("HUNK_INVALID_MALFORMED_HEADER", "validate",
                             "Hunk header is malformed")>>]
    ELSE IF ~match.ok
    THEN [ok |-> TRUE,
          hunk |-> [hunk EXCEPT !.header =
                        RepairedSpanText(CountedOldOf(hunk), CountedNewOf(hunk))
                            \o <<NL>>],
          events |-> <<>>]
    ELSE validateCounted(hunk, file_header, allow_repairs,
                         int(match.old), int(match.new), count_body_lines(hunk))

\* a hunk without body lines rejected before anything is counted
validateMatchedRejectsEmpty(hunk, file_header, allow_repairs, match) ==
    IF ~match.ok
    THEN [ok |-> FALSE, hunk |-> hunk,
          events |-> <<Event("HUNK_INVALID_MALFORMED_HEADER", "validate",
                             "Hunk header is malformed")>>]
    ELSE IF hunk.body = <<>>
    THEN [ok |-> FALSE, hunk |-> hunk, events |-> <<>>]
    ELSE validateCounted(hunk, file_header, allow_repairs,
                         int(match.old), int(match.new), count_body_lines(hunk))

\* validate_hunk with the result of re.match on the header
validateMatched(hunk, file_header, allow_repairs, match) ==
    IF ~match.ok
    THEN [ok |-> FALSE, hunk |-> hunk,
          events |-> <<Event("HUNK_INVALID_MALFORMED_HEADER", "validate",
                             "Hunk header is malformed")>>]
    ELSE validateCounted(hunk, file_header, allow_repairs,
                         int(match.old), int(match.new), count_body_lines(hunk))

\* allow_repairs not consulted: the repair path is taken in scan mode too
validateHunkAlwaysRepairs(hunk, file_header, allow_repairs) ==
    validateMatched(hunk, file_header, TRUE, re_match(hunk.header))

\* validate_hunk: ok is the returned bool, hunk the Hunk object after the call
validate_hunk(hunk, file_header, allow_repairs) ==
    validateMatched(hunk, file_header, allow_repairs, re_match(hunk.header))

\* ------------------------------------------------------------- cleaner
DiffMarker == <<"d", "i", "f", "f", " ", "-", "-", "g", "i", "t", " ">>
HunkMarker == <<"@", "@", " ">>

\* index of the first line starting with "diff --git ", 0 when there is none
RECURSIVE firstDiffFrom(_, _)
firstDiffFrom(lines, i) ==
    IF i > Len(lines) THEN 0
    ELSE IF startswith(lines[i], DiffMarker) THEN i
    ELSE firstDiffFrom(lines, i + 1)

\* cleaned.append(line.rstrip("\n").rstrip() + "\n")
CleanLine(line) == rstrip(rstrip_nl(line)) \o <<NL>>

\* the prefix test left out: any line that strips to "+"
IsBlankAdditionAnywhere(line) == strip(line) = <<"+">>

IsBlankAddition(line) == startswith(line, <<"+">>) /\ strip(line) = <<"+">>

\* while lines and lines[-1] is a blank addition: lines.pop()
RECURSIVE DropEofPlus(_)
DropEofPlus(lines) ==
    IF lines # <<>> /\ IsBlankAddition(lines[Len(lines)])
    THEN DropEofPlus(SubSeq(lines, 1, Len(lines) - 1))
    ELSE lines

RECURSIVE trimEventsFrom(_, _)
trimEventsFrom(lines, i) ==
    IF i > Len(lines) THEN <<>>
    ELSE (IF rstrip(lines[i]) # lines[i]
          THEN <<Event("WHITESPACE_TRIMMED", "basic_clean",
                       "Trimmed trailing whitespace on line")>>
          ELSE <<>>) \o trimEventsFrom(lines, i + 1)

basic_clean(text) ==
    LET lines0 == splitlines(text)
        first == firstDiffFrom(lines0, 1)
        stripped == first > 1
        lines1 == IF stripped THEN SubSeq(lines0, first, Len(lines0)) ELSE lines0
        cleaned == [k \in 1..Len(lines1) |-> CleanLine(lines1[k])]
        lines2 == DropEofPlus(cleaned)
    IN  [lines |-> lines2,
         events |->
            <<Event("BASIC_CLEAN_START", "basic_clean", "Starting basic_clean")>>
            \o <<IF stripped
                 THEN Event("PREAMBLE_STRIPPED", "basic_clean",
                            "Stripped preamble before first diff --git")
                 ELSE Event("PREAMBLE_NONE", "basic_clean",
                            "No preamble detected before first diff --git")>>
            \o trimEventsFrom(lines1, 1)
            \o <<Event("WHITESPACE_TRIM_SUMMARY", "basic_clean",
                       "Trailing whitespace trimming summary"),
                 Event("EOF_PLUS_BLANK_DROPPED", "basic_clean",
                       "Dropped trailing '+ blank' lines at EOF"),
                 Event("BASIC_CLEAN_END", "basic_clean", "Finished basic_clean")>>]

\* -------------------------------------------------------------- parser
\* current_file is the last FileDiff of files (None while files is empty);
\* in_hunk says current_hunk is not None, and it is then the last Hunk of
\* current_file.
RECURSIVE parseFrom(_, _, _)
parseFrom(lines, i, st) ==
    IF i > Len(lines) THEN st
    ELSE
    LET line == lines[i]
        nf == Len(st.files)
        nh == IF nf = 0 THEN 0 ELSE Len(st.files[nf].hunks)
    IN  IF startswith(line, DiffMarker)
        THEN parseFrom(lines, i + 1,
                [files |-> Append(st.files, FileDiff(line)),
                 in_hunk |-> FALSE,
                 events |-> Append(st.events,
                    Event("PARSE_FILE_START", "parse",
                          "Detected new file diff section"))])
        ELSE IF nf = 0
        THEN parseFrom(lines, i + 1,
                [st EXCEPT !.events = Append(@,
                    Event("PARSE_ORPHAN_LINE", "parse",
                          "Line before any diff section (ignored)"))])
        ELSE IF startswith(line, HunkMarker)
        THEN parseFrom(lines, i + 1,
                [files |-> [st.files EXCEPT ![nf].hunks = Append(@, Hunk(line))],
                 in_hunk |-> TRUE,
                 events |-> Append(st.events,
                    Event("PARSE_HUNK_HEADER", "parse", "Detected hunk header"))])
        ELSE IF st.in_hunk
        THEN parseFrom(lines, i + 1,
                [st EXCEPT
                    !.files = [@ EXCEPT ![nf].hunks[nh].body = Append(@, line)],
                    !.events = Append(@,
                        Event("PARSE_HUNK_BODY_LINE", "parse",
                              "Recorded hunk body line"))])
        ELSE parseFrom(lines, i + 1,
                [st EXCEPT
                    !.files = [@ EXCEPT ![nf].headers = Append(@, line)],
                    !.events = Append(@,
                        Event("PARSE_FILE_HEADER_LINE", "parse",
                              "Recorded file header line"))])

parseSummary(st) ==
    [files |-> st.files,
     events |-> Append(st.events,
        Event("PARSE_SUMMARY", "parse", "Finished parsing patch"))]

\* `current_hunk = None` left out at a new file: cur_f/cur_h point at the Hunk
\* object current_hunk still refers to (cur_h = 0 for None)
RECURSIVE parseKeepsCursorFrom(_, _, _)
parseKeepsCursorFrom(lines, i, st) ==
    IF i > Len(lines) THEN st
    ELSE
    LET line == lines[i]
        nf == Len(st.files)
    IN  IF startswith(line, DiffMarker)
        THEN parseKeepsCursorFrom(lines, i + 1,
                [st EXCEPT
                    !.files = Append(@, FileDiff(line)),
                    !.events = Append(@,
                        Event("PARSE_FILE_START", "parse",
                              "Detected new file diff section"))])
        ELSE IF nf = 0
        THEN parseKeepsCursorFrom(lines, i + 1,
                [st EXCEPT !.events = Append(@,
                    Event("PARSE_ORPHAN_LINE", "parse",
                          "Line before any diff section (ignored)"))])
        ELSE IF startswith(line, HunkMarker)
        THEN parseKeepsCursorFrom(lines, i + 1,
                [files |-> [st.files EXCEPT ![nf].hunks = Append(@, Hunk(line))],
                 cur_f |-> nf,
                 cur_h |-> Len(st.files[nf].hunks) + 1,
                 events |-> Append(st.events,
                    Event("PARSE_HUNK_HEADER", "parse", "Detected hunk header"))])
        ELSE IF st.cur_h # 0
        THEN parseKeepsCursorFrom(lines, i + 1,
                [st EXCEPT
                    !.files = [@ EXCEPT
                        ![st.cur_f].hunks[st.cur_h].body = Append(@, line)],
                    !.events = Append(@,
                        Event("PARSE_HUNK_BODY_LINE", "parse",
                              "Recorded hunk body line"))])
        ELSE parseKeepsCursorFrom(lines, i + 1,
                [st EXCEPT
                    !.files = [@ EXCEPT ![nf].headers = Append(@, line)],
                    !.events = Append(@,
                        Event("PARSE_FILE_HEADER_LINE", "parse",
                              "Recorded file header line"))])

parseDiffKeepsCursor(lines) ==
    LET st == parseKeepsCursorFrom(lines, 1,
                  [files |-> <<>>, cur_f |-> 0, cur_h |-> 0, events |-> <<>>])
    IN  [files |-> st.files,
         events |-> Append(st.events,
            Event("PARSE_SUMMARY", "parse", "Finished parsing patch"))]

parse_diff(lines) ==
    parseSummary(parseFrom(lines, 1,
        [files |-> <<>>, in_hunk |-> FALSE, events |-> <<>>]))

\* ------------------------------------------------- filter / repair, render
\* the inner loop of filter_or_repair_files over one file's hunks
keepIfValid(acc, r) ==
    [valid_hunks |-> IF r.ok THEN Append(acc.valid_hunks, r.hunk) ELSE acc.valid_hunks,
     events |-> acc.events \o r.events]

RECURSIVE validHunksFrom(_, _, _, _)
validHunksFrom(file_diff, k, allow_repairs, acc) ==
    IF k > Len(file_diff.hunks) THEN acc
    ELSE validHunksFrom(file_diff, k + 1, allow_repairs,
            keepIfValid(acc,
                validate_hunk(file_diff.hunks[k], file_diff.header, allow_repairs)))

\* the kept file put in front of the result instead of behind it
keepIfAnyHunkPrepend(acc, file_diff, v) ==
    IF v.valid_hunks # <<>>
    THEN [result |-> <<[file_diff EXCEPT !.hunks = v.valid_hunks]>> \o acc.result,
          events |-> acc.events \o v.events]
    ELSE [result |-> acc.result, events |-> acc.events \o v.events]

\* the `if valid_hunks:` test left out: a file is kept with whatever is left
keepEvenWithoutHunks(acc, file_diff, v) ==
    [result |-> Append(acc.result, [file_diff EXCEPT !.hunks = v.valid_hunks]),
     events |-> acc.events \o v.events]

\* the outer loop's body: keep the file with its valid hunks, or drop it
keepIfAnyHunk(acc, file_diff, v) ==
    IF v.valid_hunks # <<>>
    THEN [result |-> Append(acc.result, [file_diff EXCEPT !.hunks = v.valid_hunks]),
          events |-> acc.events \o v.events]
    ELSE [result |-> acc.result,
          events |-> acc.events \o v.events \o
             <<Event("FILE_DROPPED_NO_VALID_HUNKS", "validate",
                     "Dropping file diff because it has no valid hunks")>>]

RECURSIVE filterFrom(_, _, _, _)
filterFrom(file_list, i, allow_repairs, acc) ==
    IF i > Len(file_list) THEN acc
    ELSE filterFrom(file_list, i + 1, allow_repairs,
            keepIfAnyHunk(acc, file_list[i],
                validHunksFrom(file_list[i], 1, allow_repairs,
                               [valid_hunks |-> <<>>, events |-> <<>>])))

withSummary(acc) ==
    [result |-> acc.result,
     events |-> Append(acc.events,
        Event("FILTER_FILES_SUMMARY", "validate",
              "Finished validating/repairing hunks and filtering files"))]

filter_or_repair_files(file_list, allow_repairs) ==
    withSummary(filterFrom(file_list, 1, allow_repairs,
                           [result |-> <<>>, events |-> <<>>]))

RECURSIVE hunkLines(_)
hunkLines(hunks) ==
    IF hunks = <<>> THEN <<>>
    ELSE <<Head(hunks).header>> \o Head(hunks).body \o hunkLines(Tail(hunks))

RECURSIVE renderLines(_)
renderLines(files) ==
    IF files = <<>> THEN <<>>
    ELSE <<Head(files).header>> \o Head(files).headers
            \o hunkLines(Head(files).hunks) \o renderLines(Tail(files))

\* `out.extend(file_diff.headers)` left out
RECURSIVE renderLinesWithoutAux(_)
renderLinesWithoutAux(files) ==
    IF files = <<>> THEN <<>>
    ELSE <<Head(files).header>>
            \o hunkLines(Head(files).hunks) \o renderLinesWithoutAux(Tail(files))

renderPatchDropsAuxHeaders(files) ==
    [text |-> join(renderLinesWithoutAux(files)),
     events |-> <<Event("RENDER_SUMMARY", "render",
                        "Rendered patch text from FileDiffs")>>]

render_patch(files) ==
    [text |-> join(renderLines(files)),
     events |-> <<Event("RENDER_SUMMARY", "render",
                        "Rendered patch text from FileDiffs")>>]

\* git_validate: the answer of `git apply --check` is the environment's
git_validate(answer) ==
    [result |-> answer,
     events |-> <<IF answer = "ok"
                  THEN Event("GIT_VALIDATE_OK", "git_validate",
                             "git apply --check reports patch is structurally valid")
                  ELSE Event("GIT_VALIDATE_ERROR", "git_validate",
                             "git apply --check reports patch issues")>>]

\* clean -> parse -> validate/repair: the first three calls of run_scan_only,
\* run_apply_once and of run_iterative's loop body
filtered(c, p, f) ==
    [cleaned_lines |-> c.lines, files |-> p.files, repaired_files |-> f.result,
     events |-> c.events \o p.events \o f.events]
parsed(c, p, allow_repairs) ==
    filtered(c, p, filter_or_repair_files(p.files, allow_repairs))
cleanedThen(c, allow_repairs) == parsed(c, parse_diff(c.lines), allow_repairs)

FilterPass(text, allow_repairs) == cleanedThen(basic_clean(text), allow_repairs)

\* ... followed by render_patch
rendered(fp, r) ==
    [cleaned_lines |-> fp.cleaned_lines, files |-> fp.files,
     repaired_files |-> fp.repaired_files, text |-> r.text,
     events |-> fp.events \o r.events]
renderOf(fp) == rendered(fp, render_patch(fp.repaired_files))

RepairPass(text, allow_repairs) == renderOf(FilterPass(text, allow_repairs))

\* ------------------------------------------------------------ inputs
LineDiffA == DiffMarker \o <<"a", NL>>
LineDiffB == DiffMarker \o <<"b", NL>>
LineHdr11 == <<"@", "@", " ", "-", "1", ",", "1", " ", "+", "1", ",", "1", " ", "@", "@", NL>>
LineHdr00 == <<"@", "@", " ", "-", "1", ",", "0", " ", "+", "1", ",", "0", " ", "@", "@", NL>>
LineHdr12fn ==
    <<"@", "@", " ", "-", "3", ",", "1", " ", "+", "4", ",", "2", " ", "@", "@", " ", "f", NL>>
LineHdr01z ==
    <<"@", "@", " ", "-", "1", ",", "0", "1", " ", "+", "1", ",", "1", " ", "@", "@", NL>>
LineHdrGarbage == <<"@", "@", " ", "g", "a", "r", "b", "a", "g", "e", " ", "@", "@", NL>>
LineHdrShort == <<"@", "@", " ", "-", "1", " ", "+", "1", ",", "1", " ", "@", "@", NL>>
LineHdrIndented ==
    <<" ", "@", "@", " ", "-", "1", ",", "1", " ", "+", "1", ",", "1", " ", "@", "@", NL>>
LineCtx == <<" ", "x", NL>>
LineRem == <<"-", "y", NL>>
LineAdd == <<"+", "z", NL>>
LinePlus == <<"+", NL>>
LineOops == <<"o", "o", "p", "s", NL>>
LineEmpty == <<NL>>
LineNoNewline == NoNewlinePrefix \o <<NL>>

\* hunks handed to validate_hunk: headers and body lines as the cleaner leaves
\* them (one "\n", no trailing whitespace)
HunkHeaders ==
    {LineHdr11, LineHdr00, LineHdr12fn, LineHdr01z,
     LineHdrGarbage, LineHdrShort, LineHdrIndented}
BodyLines ==
    {LineCtx, LineRem, LineAdd, LinePlus, LineOops, LineEmpty, LineNoNewline}

\* raw lines of an input file, before cleaning
RawLines ==
    {LineDiffA, LineCtx, LinePlus, LineAdd,
     <<"+", " ", NL>>, <<" ", NL>>, <<" ", "+", NL>>, <<"o", "o", "p", "s">>}

\* lines of the patch files run through the whole pipeline
PatchLines ==
    {LineDiffA, LineDiffB, LineHdr11, LineHdrGarbage, LineCtx, LinePlus, LineOops}

SeqsUpTo(S, n) == UNION {[1..k -> S] : k \in 0..n}

\* ------------------------------------------------------------- state
VARIABLES
    pc,                 \* position of the running function
    mode,               \* main(): --scan-only / --apply-repairs / --iterative
    original,           \* load_file(input_path)
    validate_with_git,  \* --validate
    max_iterations,     \* --max-iters
    hunk,               \* the Hunk object validate_hunk is called on
    hunk_at_call,       \* its value when the call was made
    allow_repairs,      \* validate_hunk's allow_repairs
    ret,                \* validate_hunk's return value
    cleaned_lines,      \* basic_clean's result
    files,              \* parse_diff's result
    repaired_files,     \* filter_or_repair_files' result
    iteration,          \* run_iterative's loop variable
    CURRENT_ITERATION,
    patch_text,
    last_patch_text,
    new_patch_text,     \* render_patch's result (repaired_patch in run_apply_once)
    git_result,
    output_file,        \* what save_file wrote to output_path
    summary,            \* plan["summary"]
    ACTION_PLAN

vars ==
    <<pc, mode, original, validate_with_git, max_iterations, hunk, hunk_at_call,
      allow_repairs, ret, cleaned_lines, files, repaired_files, iteration,
      CURRENT_ITERATION, patch_text, last_patch_text, new_patch_text, git_result,
      output_file, summary, ACTION_PLAN>>

\* Python's None for git_result and mode; an optional text or record is the
\* empty tuple (None) or a 1-tuple holding it
None == "None"
Nothing == <<>>
Some(x) == <<x>>
\* `iteration` before the for loop has bound it
Unbound == -1
NoHunk == [header |-> <<>>, body |-> <<>>]

Answers == {"ok", "error"}
DefaultMaxIters == 5
FileHeaderForContext == LineDiffA

NoHunkCall ==
    hunk = NoHunk /\ hunk_at_call = NoHunk /\ allow_repairs = FALSE /\ ret = FALSE

NoPipeline ==
    /\ cleaned_lines = <<>> /\ files = <<>> /\ repaired_files = <<>>
    /\ iteration = Unbound /\ last_patch_text = Nothing /\ new_patch_text = <<>>
    /\ git_result = None /\ output_file = Nothing /\ summary = Nothing

NoMain ==
    /\ mode = None /\ validate_with_git = FALSE /\ max_iterations = DefaultMaxIters
    /\ patch_text = <<>>

\* the log replaced by the new entries instead of extended with them
LoggedOverwrites(events, it) == Stamp(events, it)

\* log(): append to ACTION_PLAN, each entry with the current iteration
Logged(events, it) == ACTION_PLAN \o Stamp(events, it)

\* --------------------------------------------------- validate_hunk alone
InitHunk ==
    /\ pc = "validate_hunk"
    /\ hunk \in [header : HunkHeaders, body : SeqsUpTo(BodyLines, MaxBody)]
    /\ hunk_at_call = hunk
    /\ allow_repairs \in BOOLEAN
    /\ ret = FALSE
    /\ original = <<>>
    /\ NoMain /\ NoPipeline
    /\ CURRENT_ITERATION = 0
    /\ ACTION_PLAN = <<>>

hunkReturns(r) ==
    /\ hunk' = r.hunk
    /\ ret' = r.ok
    /\ ACTION_PLAN' = Logged(r.events, CURRENT_ITERATION)

CallValidateHunk ==
    /\ pc = "validate_hunk"
    /\ hunkReturns(validate_hunk(hunk, FileHeaderForContext, allow_repairs))
    /\ pc' = "returned"
    /\ UNCHANGED <<mode, original, validate_with_git, max_iterations, hunk_at_call,
                   allow_repairs, cleaned_lines, files, repaired_files, iteration,
                   CURRENT_ITERATION, patch_text, last_patch_text, new_patch_text,
                   git_result, output_file, summary>>

NextHunk == CallValidateHunk

SpecHunk == InitHunk /\ [][NextHunk]_vars

\* ----------------------------------------------------- basic_clean alone
InitClean ==
    /\ pc = "basic_clean"
    /\ original \in {join(ls) : ls \in SeqsUpTo(RawLines, MaxRaw)}
    /\ NoHunkCall /\ NoMain /\ NoPipeline
    /\ CURRENT_ITERATION = 0
    /\ ACTION_PLAN = <<>>

cleanReturns(c) ==
    /\ cleaned_lines' = c.lines
    /\ ACTION_PLAN' = Logged(c.events, CURRENT_ITERATION)

CallBasicClean ==
    /\ pc = "basic_clean"
    /\ cleanReturns(basic_clean(original))
    /\ pc' = "returned"
    /\ UNCHANGED <<mode, original, validate_with_git, max_iterations, hunk,
                   hunk_at_call, allow_repairs, ret, files, repaired_files,
                   iteration, CURRENT_ITERATION, patch_text, last_patch_text,
                   new_patch_text, git_result, output_file, summary>>

NextClean == CallBasicClean

SpecClean == InitClean /\ [][NextClean]_vars

\* ------------------------------------------------------- parse_diff alone
\* parse_diff on any sequence of lines (each with its terminator)
InitParse ==
    /\ pc = "parse_diff"
    /\ cleaned_lines \in SeqsUpTo(PatchLines, MaxLines)
    /\ files = <<>> /\ repaired_files = <<>>
    /\ iteration = Unbound /\ last_patch_text = Nothing /\ new_patch_text = <<>>
    /\ git_result = None /\ output_file = Nothing /\ summary = Nothing
    /\ original = <<>>
    /\ NoHunkCall /\ NoMain
    /\ CURRENT_ITERATION = 0
    /\ ACTION_PLAN = <<>>

parseReturns(p) ==
    /\ files' = p.files
    /\ ACTION_PLAN' = Logged(p.events, CURRENT_ITERATION)

CallParseDiff ==
    /\ pc = "parse_diff"
    /\ parseReturns(parse_diff(cleaned_lines))
    /\ pc' = "parsed"
    /\ UNCHANGED <<mode, original, validate_with_git, max_iterations, hunk,
                   hunk_at_call, allow_repairs, ret, cleaned_lines, repaired_files,
                   iteration, CURRENT_ITERATION, patch_text, last_patch_text,
                   new_patch_text, git_result, output_file, summary>>

NextParse == CallParseDiff

SpecParse == InitParse /\ [][NextParse]_vars

\* ------------------------------- parse_diff, then render_patch on its result
renderReturns(r) ==
    /\ new_patch_text' = r.text
    /\ ACTION_PLAN' = Logged(r.events, CURRENT_ITERATION)

CallRenderPatch ==
    /\ pc = "parsed"
    /\ renderReturns(render_patch(files))
    /\ pc' = "rendered"
    /\ UNCHANGED <<mode, original, validate_with_git, max_iterations, hunk,
                   hunk_at_call, allow_repairs, ret, cleaned_lines, files,
                   repaired_files, iteration, CURRENT_ITERATION, patch_text,
                   last_patch_text, git_result, output_file, summary>>

NextRender == CallParseDiff \/ CallRenderPatch

SpecRender == InitParse /\ [][NextRender]_vars

\* ------------------------------------------------------------ main()
PlanStart(m) == Stamp(<<Event("PLAN_START", "meta", m)>>, 0)

\* --scan-only and --apply-repairs: main() has cleared ACTION_PLAN, reset
\* CURRENT_ITERATION and logged PLAN_START
InitPass ==
    /\ mode \in {"scan-only", "apply-repairs"}
    /\ original \in {join(ls) : ls \in SeqsUpTo(PatchLines, MaxLines)}
    /\ validate_with_git \in BOOLEAN
    /\ max_iterations = DefaultMaxIters
    /\ pc = IF mode = "scan-only" THEN "run_scan_only" ELSE "run_apply_once"
    /\ patch_text = <<>>
    /\ NoHunkCall /\ NoPipeline
    /\ CURRENT_ITERATION = 0
    /\ ACTION_PLAN = PlanStart(mode)

\* --iterative: as above, and run_iterative has loaded the file and set its
\* locals (lines 680-683)
Init ==
    /\ mode = "iterative"
    /\ original \in {join(ls) : ls \in SeqsUpTo(PatchLines, MaxIterLines)}
    /\ validate_with_git \in BOOLEAN
    /\ max_iterations \in 0..MaxIters
    /\ pc = "loop"
    /\ patch_text = original
    /\ NoHunkCall /\ NoPipeline
    /\ CURRENT_ITERATION = 0
    /\ ACTION_PLAN = PlanStart(mode)

\* the oracle is called only under --validate; its answer is the environment's
OracleAnswers == IF validate_with_git THEN Answers ELSE {None}

oracle(answer) ==
    IF validate_with_git THEN git_validate(answer)
    ELSE [result |-> None, events |-> <<>>]

scanOnly(fp, g) ==
    /\ cleaned_lines' = fp.cleaned_lines
    /\ files' = fp.files
    /\ repaired_files' = fp.repaired_files
    /\ git_result' = g.result
    /\ summary' = Some([valid_files |-> None, git_validation |-> g.result])
    /\ ACTION_PLAN' = Logged(fp.events \o g.events
            \o <<Event("PLAN_SUMMARY", "meta", "Scan-only patch analysis completed")>>,
            CURRENT_ITERATION)

RunScanOnly ==
    /\ pc = "run_scan_only"
    /\ \E answer \in OracleAnswers :
          scanOnly(FilterPass(original, FALSE), oracle(answer))
    /\ pc' = "done"
    /\ UNCHANGED <<mode, original, validate_with_git, max_iterations, hunk,
                   hunk_at_call, allow_repairs, ret, iteration, CURRENT_ITERATION,
                   patch_text, last_patch_text, new_patch_text, output_file>>

applyOnce(r, g) ==
    /\ cleaned_lines' = r.cleaned_lines
    /\ files' = r.files
    /\ repaired_files' = r.repaired_files
    /\ new_patch_text' = r.text
    /\ output_file' = Some(r.text)
    /\ git_result' = g.result
    /\ summary' = Some([valid_files |-> Len(r.repaired_files),
                        git_validation |-> g.result])
    /\ ACTION_PLAN' = Logged(r.events \o g.events
            \o <<Event("PLAN_SUMMARY", "meta", "Single-pass repair completed")>>,
            CURRENT_ITERATION)

RunApplyOnce ==
    /\ pc = "run_apply_once"
    /\ \E answer \in OracleAnswers :
          applyOnce(RepairPass(original, TRUE), oracle(answer))
    /\ pc' = "done"
    /\ UNCHANGED <<mode, original, validate_with_git, max_iterations, hunk,
                   hunk_at_call, allow_repairs, ret, iteration, CURRENT_ITERATION,
                   patch_text, last_patch_text>>

\* the value `for iteration in range(max_iterations)` binds next
NextIteration == IF iteration = Unbound THEN 0 ELSE iteration + 1

\* the oracle's answer never stops the loop
RoundExitIgnoresOracle(last_text, new_text, result) ==
    IF last_text # Nothing /\ Some(new_text) = last_text THEN "break_no_progress"
    ELSE "loop"

\* the oracle's answer tested before the no-progress condition
RoundExitOracleFirst(last_text, new_text, result) ==
    IF result = "ok" THEN "break_git_ok"
    ELSE IF last_text # Nothing /\ Some(new_text) = last_text THEN "break_no_progress"
    ELSE "loop"

\* the rendered text compared with the input file instead of the last round's
RoundExitAgainstOriginal(last_text, new_text, result) ==
    IF last_text # Nothing /\ new_text = original THEN "break_no_progress"
    ELSE IF result = "ok" THEN "break_git_ok"
    ELSE "loop"

\* how one round of run_iterative's loop ends, in the order the code tests
RoundExit(last_text, new_text, result) ==
    IF last_text # Nothing /\ Some(new_text) = last_text THEN "break_no_progress"
    ELSE IF result = "ok" THEN "break_git_ok"
    ELSE "loop"

exitEvent(exit) ==
    IF exit = "break_no_progress"
    THEN Event("ITERATION_NO_PROGRESS", "meta",
               "Iteration made no textual changes; stopping loop")
    ELSE IF exit = "break_git_ok"
    THEN Event("ITERATION_GIT_OK", "meta",
               "git apply --check succeeded; stopping loop")
    ELSE Event("ITERATION_END", "meta", "Completed repair iteration")

\* the loop body once the pass r and the oracle's g are computed
roundEnds(it, r, g, exit) ==
    /\ iteration' = it
    /\ CURRENT_ITERATION' = it
    /\ cleaned_lines' = r.cleaned_lines
    /\ files' = r.files
    /\ repaired_files' = r.repaired_files
    /\ new_patch_text' = r.text
    /\ git_result' = g.result
    /\ patch_text' = r.text
    /\ last_patch_text' = IF exit = "loop" THEN Some(r.text) ELSE last_patch_text
    /\ pc' = exit
    /\ ACTION_PLAN' = Logged(
            <<Event("ITERATION_START", "meta", "Starting repair iteration")>>
            \o r.events \o g.events \o <<exitEvent(exit)>>, it)

round(it, r, g) == roundEnds(it, r, g, RoundExit(last_patch_text, r.text, g.result))

\* git_result keeps its value when the oracle is not called
roundOracle(answer) ==
    IF validate_with_git THEN git_validate(answer)
    ELSE [result |-> git_result, events |-> <<>>]

\* one iteration of run_iterative's for loop
IterRound ==
    /\ pc = "loop"
    /\ NextIteration < max_iterations
    /\ \E answer \in OracleAnswers :
          round(NextIteration, RepairPass(patch_text, TRUE), roundOracle(answer))
    /\ UNCHANGED <<mode, original, validate_with_git, max_iterations, hunk,
                   hunk_at_call, allow_repairs, ret, output_file, summary>>

\* after the loop (exhausted or left by break): save_file, then the summary;
\* iteration + 1 raises UnboundLocalError when the loop body never ran
IterFinish ==
    /\ \/ pc \in {"break_no_progress", "break_git_ok"}
       \/ pc = "loop" /\ NextIteration >= max_iterations
    /\ output_file' = Some(patch_text)
    /\ IF iteration = Unbound
       THEN /\ pc' = "raised"
            /\ UNCHANGED <<summary, ACTION_PLAN>>
       ELSE /\ pc' = "done"
            /\ summary' = Some([iterations_run |-> iteration + 1,
                                git_validation |-> git_result])
            /\ ACTION_PLAN' = Logged(
                    <<Event("PLAN_SUMMARY", "meta", "Iterative repair completed")>>,
                    CURRENT_ITERATION)
    /\ UNCHANGED <<mode, original, validate_with_git, max_iterations, hunk,
                   hunk_at_call, allow_repairs, ret, cleaned_lines, files,
                   repaired_files, iteration, CURRENT_ITERATION, patch_text,
                   last_patch_text, new_patch_text, git_result>>

NextPass == RunScanOnly \/ RunApplyOnce

SpecPass == InitPass /\ [][NextPass]_vars

Next == IterRound \/ IterFinish

Spec == Init /\ [][Next]_vars

\* =============================================================== claims
\* what a hunk header declares and what its body counts to
HeaderOk(header) == re_match(header).ok
DeclaredOld(header) == int(re_match(header).old)
DeclaredNew(header) == int(re_match(header).new)
CountedOld(body) == CountKind(body, "Context") + CountKind(body, "Removed")
CountedNew(body) == CountKind(body, "Context") + CountKind(body, "Added")
HasUnexpected(body) == \E k \in 1..Len(body) : LineKind(body[k]) = "Unexpected"
SpansMatch(h) ==
    DeclaredOld(h.header) = CountedOld(h.body) /\ DeclaredNew(h.header) = CountedNew(h.body)

\* C1: with repairs disallowed, validate_hunk returns true exactly for the
\* hunks whose header matches the pattern, whose declared old span is
\* Context+Removed, whose declared new span is Context+Added, and whose body
\* has no Unexpected line.
C1_ScanValidIff ==
    (pc = "returned" /\ ~allow_repairs) =>
        (ret <=> /\ HeaderOk(hunk_at_call.header)
                 /\ SpansMatch(hunk_at_call)
                 /\ ~HasUnexpected(hunk_at_call.body))

C1_Witness ==
    /\ pc = "returned" /\ ~allow_repairs /\ ret
    /\ CountKind(hunk_at_call.body, "Context") = 1
    /\ CountKind(hunk_at_call.body, "Added") = 1
    /\ CountKind(hunk_at_call.body, "NoNewlineMarker") = 1

\* C2: with repairs allowed, a hunk with a well-formed header, mismatching
\* spans and no Unexpected line comes out of one validate_hunk call with a
\* header declaring exactly the counted spans, and the call returns true.
C2_RepairCase ==
    /\ allow_repairs
    /\ HeaderOk(hunk_at_call.header)
    /\ ~SpansMatch(hunk_at_call)
    /\ ~HasUnexpected(hunk_at_call.body)

C2_RepairSetsSpans ==
    (pc = "returned" /\ C2_RepairCase) =>
        /\ ret
        /\ HeaderOk(hunk.header)
        /\ DeclaredOld(hunk.header) = CountedOld(hunk_at_call.body)
        /\ DeclaredNew(hunk.header) = CountedNew(hunk_at_call.body)

C2_Witness ==
    /\ pc = "returned" /\ C2_RepairCase
    /\ hunk.header # hunk_at_call.header
    /\ CountedOld(hunk_at_call.body) # CountedNew(hunk_at_call.body)

\* ---------------------------------------------------- iterative mode
CountCode(code) ==
    Cardinality({k \in 1..Len(ACTION_PLAN) : ACTION_PLAN[k].code = code})
HasCode(code) == CountCode(code) > 0
Terminal == pc \in {"done", "raised"}

\* C3: the text rendered by one repair pass is a fixed point of the pass: the
\* round that runs on round 0's rendered text renders the same text again.
C3_PassIdempotent ==
    [][(iteration = 0 /\ iteration' = 1) => new_patch_text' = new_patch_text]_vars

\* C6: run_iterative never starts more than max_iterations rounds, ends
\* normally for every max_iterations (0 included), and reports an
\* iterations_run that is at most max_iterations.
C6_HaltsWithinCap ==
    /\ CountCode("ITERATION_START") <= max_iterations
    /\ Terminal => (pc = "done" /\ summary[1].iterations_run <= max_iterations)

\* C8: with validation enabled, an oracle success on round 0 ends the loop
\* after that one round with ITERATION_GIT_OK logged, and the summary reports
\* iterations_run = 1.
C8_OracleOkOnRoundZero ==
    (validate_with_git /\ iteration = 0 /\ git_result = "ok") =>
        /\ pc \in {"break_git_ok", "done"}
        /\ HasCode("ITERATION_GIT_OK")
        /\ CountCode("ITERATION_START") = 1
        /\ pc = "done" => summary[1].iterations_run = 1

C8_Witness ==
    /\ pc = "done" /\ validate_with_git /\ iteration = 0 /\ git_result = "ok"
    /\ max_iterations > 1
    /\ original # <<>> /\ new_patch_text # original

\* C9: a round after the first whose rendered text equals the previous
\* round's stops the loop as no-progress even when the oracle reports success;
\* the loop stops as oracle-converged only without no-progress and with an
\* enabled oracle reporting success; otherwise the rendered text becomes the
\* next round's input.
C9_StopRulePriority ==
    [][(pc = "loop" /\ iteration' # iteration) =>
        LET noProgress == iteration >= 0 /\ new_patch_text' = new_patch_text
            oracleOk == validate_with_git /\ git_result' = "ok"
        IN  /\ noProgress => pc' = "break_no_progress"
            /\ pc' = "break_no_progress" => noProgress
            /\ (~noProgress /\ oracleOk) => pc' = "break_git_ok"
            /\ pc' = "break_git_ok" => (~noProgress /\ oracleOk)
            /\ (~noProgress /\ ~oracleOk) =>
                    (pc' = "loop" /\ patch_text' = new_patch_text')]_vars

C9_Witness ==
    /\ pc = "break_no_progress" /\ validate_with_git /\ git_result = "ok"
    /\ HasCode("ITERATION_NO_PROGRESS") /\ ~HasCode("ITERATION_GIT_OK")

\* C10: every run ends in exactly one of no-progress, oracle-converged and
\* exhausted, exhausted meaning that max_iterations rounds ran and none of
\* them stopped the loop; the text written is the last executed round's
\* rendered text.
StoppedByNoProgress == HasCode("ITERATION_NO_PROGRESS")
StoppedByOracle == HasCode("ITERATION_GIT_OK")
Exhausted == CountCode("ITERATION_END") = max_iterations

C10_Outcome ==
    /\ Cardinality({o \in {"np", "ok", "ex"} :
            \/ o = "np" /\ StoppedByNoProgress
            \/ o = "ok" /\ StoppedByOracle
            \/ o = "ex" /\ Exhausted}) = 1
    /\ CountCode("ITERATION_START") >= 1
    /\ output_file = Some(new_patch_text)

C10_TerminalOutcome == Terminal => (pc = "done" /\ C10_Outcome)

\* ------------------------------------------------------- single pass
\* out is in, with entries removed and none moved or repeated; a retained
\* hunk keeps its body, and its header unless the header was repaired
HunkFrom(oh, ih) ==
    /\ oh.body = ih.body
    /\ \/ oh.header = ih.header
       \/ HeaderOk(ih.header) /\ HeaderOk(oh.header) /\ SpansMatch(oh)

RECURSIVE HunksEmbed(_, _, _, _)
HunksEmbed(out, i, in, j) ==
    IF i > Len(out) THEN TRUE
    ELSE IF j > Len(in) THEN FALSE
    ELSE \/ HunkFrom(out[i], in[j]) /\ HunksEmbed(out, i + 1, in, j + 1)
         \/ HunksEmbed(out, i, in, j + 1)

FileFrom(of, if) ==
    /\ of.header = if.header
    /\ of.headers = if.headers
    /\ HunksEmbed(of.hunks, 1, if.hunks, 1)

RECURSIVE FilesEmbed(_, _, _, _)
FilesEmbed(out, i, in, j) ==
    IF i > Len(out) THEN TRUE
    ELSE IF j > Len(in) THEN FALSE
    ELSE \/ FileFrom(out[i], in[j]) /\ FilesEmbed(out, i + 1, in, j + 1)
         \/ FilesEmbed(out, i, in, j + 1)

\* the files and hunks the rendered text holds
OutFiles == parse_diff(splitlines(new_patch_text)).files

\* C4: the files of the rendered output are files of the input in the
\* input's order, and each one's hunks are hunks of that input file in its
\* order: validation removes entries, it neither reorders nor repeats them.
C4_OrderPreserved ==
    pc = "done" =>
        /\ FilesEmbed(repaired_files, 1, files, 1)
        /\ mode = "apply-repairs" => FilesEmbed(OutFiles, 1, files, 1)

C4_Witness ==
    /\ pc = "done" /\ mode = "apply-repairs"
    /\ Len(files) = 2 /\ Len(OutFiles) = 2
    /\ OutFiles[1].header # OutFiles[2].header

\* C7: a hunk whose header does not match the pattern is rejected with and
\* without repairs and is left as it was; a file all of whose hunks are such
\* hunks is not in the result of filter_or_repair_files.
WellFormedHunk(h) == HeaderOk(h.header)
NotAllMalformed(f) == f.hunks = <<>> \/ \E k \in 1..Len(f.hunks) : WellFormedHunk(f.hunks[k])
WithoutMalformed(fs) ==
    LET kept == SelectSeq(fs, NotAllMalformed)
    IN  [i \in 1..Len(kept) |->
            [kept[i] EXCEPT !.hunks = SelectSeq(@, WellFormedHunk)]]

C7_MalformedRejected ==
    pc = "done" =>
        /\ \A i \in 1..Len(files) : \A k \in 1..Len(files[i].hunks) :
              ~WellFormedHunk(files[i].hunks[k]) =>
                  \A allow \in BOOLEAN :
                      /\ ~validate_hunk(files[i].hunks[k], files[i].header, allow).ok
                      /\ validate_hunk(files[i].hunks[k], files[i].header, allow).hunk
                            = files[i].hunks[k]
        /\ FilesEmbed(repaired_files, 1, WithoutMalformed(files), 1)

C7_Witness ==
    /\ pc = "done" /\ mode = "apply-repairs"
    /\ Len(files) = 2 /\ Len(repaired_files) = 1
    /\ Len(files[1].hunks) = 1 /\ ~WellFormedHunk(files[1].hunks[1])
    /\ files[1].header # files[2].header

\* ------------------------------------------------------- basic_clean
\* the lines after preamble stripping and whitespace normalisation, before
\* the EOF trimming
NormalisedLines(text) ==
    LET ls == splitlines(text)
        first == firstDiffFrom(ls, 1)
        rest == IF first > 1 THEN SubSeq(ls, first, Len(ls)) ELSE ls
    IN  [k \in 1..Len(rest) |-> CleanLine(rest[k])]

BlankAdditionLine == <<"+", NL>>

\* C5: basic_clean returns the normalised lines without their maximal
\* trailing run of lines that are exactly "+": the result never ends in such
\* a line, only such lines are removed, and a trailing line of any other
\* kind (a context line) stays.
C5_EofTrimming ==
    pc = "returned" =>
        LET norm == NormalisedLines(original)
            m == Len(cleaned_lines)
        IN  /\ m <= Len(norm)
            /\ cleaned_lines = SubSeq(norm, 1, m)
            /\ \A k \in (m + 1)..Len(norm) : norm[k] = BlankAdditionLine
            /\ m > 0 => cleaned_lines[m] # BlankAdditionLine

C5_Witness ==
    /\ pc = "returned"
    /\ Len(NormalisedLines(original)) = Len(cleaned_lines) + 2
    /\ Len(cleaned_lines) = 1
    /\ startswith(cleaned_lines[1], <<" ">>)

\* ------------------------------------------------- filter_or_repair_files
\* the hunks of file f that validate_hunk accepts in the run's mode
Accepted(f, allow) ==
    {k \in 1..Len(f.hunks) : validate_hunk(f.hunks[k], f.header, allow).ok}

\* C11: every file in the result of filter_or_repair_files has at least one
\* hunk; the result holds one file per input file with an accepted hunk, so
\* a file whose hunks were all rejected and a file that had no hunks are
\* dropped, and no file of the rendered text is without hunks.
C11_NoFileWithoutHunks ==
    pc = "done" =>
        /\ \A i \in 1..Len(repaired_files) : repaired_files[i].hunks # <<>>
        /\ Len(repaired_files) =
              Cardinality({i \in 1..Len(files) :
                  Accepted(files[i], mode = "apply-repairs") # {}})
        /\ mode = "apply-repairs" =>
              /\ Len(OutFiles) = Len(repaired_files)
              /\ \A i \in 1..Len(OutFiles) : OutFiles[i].hunks # <<>>

C11_Witness ==
    /\ pc = "done" /\ mode = "apply-repairs"
    /\ Len(files) = 2 /\ files[1].hunks = <<>> /\ files[2].hunks # <<>>
    /\ Len(repaired_files) = 1 /\ repaired_files[1].header = files[2].header
    /\ files[1].header # files[2].header

\* ------------------------------------------------------- validate_hunk
\* C12: with repairs disallowed, validate_hunk leaves the hunk's header and
\* body exactly as they were, whether it returns true or false.
C12_ScanNeverMutates ==
    (pc = "returned" /\ ~allow_repairs) => hunk = hunk_at_call

C12_Witness ==
    /\ pc = "returned" /\ ~allow_repairs /\ ~ret
    /\ HeaderOk(hunk_at_call.header) /\ ~SpansMatch(hunk_at_call)
    /\ ~HasUnexpected(hunk_at_call.body)
    /\ hunk_at_call.body # <<>>

\* C13: with repairs allowed, a hunk with a well-formed header and an
\* Unexpected body line is never logged as HUNK_VALID; validate_hunk returns
\* true exactly when the declared spans differ from the counted ones, and
\* then the span repair was applied.
C13_Case ==
    /\ allow_repairs
    /\ HeaderOk(hunk_at_call.header)
    /\ HasUnexpected(hunk_at_call.body)

C13_UnexpectedNeverPlainValid ==
    (pc = "returned" /\ C13_Case) =>
        /\ ~HasCode("HUNK_VALID")
        /\ ret <=> ~SpansMatch(hunk_at_call)
        /\ ret => /\ HasCode("HUNK_HEADER_SPAN_REPAIRED")
                  /\ HasCode("HUNK_VALID_AFTER_REPAIR")
                  /\ hunk.header # hunk_at_call.header

C13_Witness ==
    /\ pc = "returned" /\ C13_Case /\ ~ret
    /\ SpansMatch(hunk_at_call)
    /\ CountedOld(hunk_at_call.body) > 0

\* ------------------------------------------------------- span repair
\* the fields of a well-formed header @@ -<a>,<b> +<c>,<d> @@<rest>
HeaderFields(header) ==
    LET a2 == DigitsEnd(header, 5)
        b2 == DigitsEnd(header, a2 + 1)
        c2 == DigitsEnd(header, b2 + 2)
        d2 == DigitsEnd(header, c2 + 1)
    IN  [old_start |-> SubSeq(header, 5, a2 - 1),
         old_span |-> SubSeq(header, a2 + 1, b2 - 1),
         new_start |-> SubSeq(header, b2 + 2, c2 - 1),
         new_span |-> SubSeq(header, c2 + 1, d2 - 1),
         rest |-> SubSeq(header, d2 + 3, Len(header))]

RepairApplied ==
    /\ pc = "returned" /\ allow_repairs
    /\ HasCode("HUNK_HEADER_SPAN_REPAIRED")

\* C14: a span repair changes only the two span fields of the header: both
\* start offsets and the text after the closing @@ are the same before and
\* after the repair, and the body lines are unchanged.
C14_RepairKeepsOffsets ==
    RepairApplied =>
        /\ HeaderFields(hunk.header).old_start
              = HeaderFields(hunk_at_call.header).old_start
        /\ HeaderFields(hunk.header).new_start
              = HeaderFields(hunk_at_call.header).new_start
        /\ HeaderFields(hunk.header).rest = HeaderFields(hunk_at_call.header).rest
        /\ hunk.body = hunk_at_call.body

\* C15: whenever a span repair is applied, the repaired header starts with
\* @@ -0,<expected_old> +0,<expected_new> @@: both start offsets are 0
\* whatever they were, and the spans are the counted values in decimal.
C15_RepairZeroesOffsets ==
    RepairApplied =>
        /\ HeaderOk(hunk.header)
        /\ HeaderFields(hunk.header).old_start = <<"0">>
        /\ HeaderFields(hunk.header).new_start = <<"0">>
        /\ HeaderFields(hunk.header).old_span = str(CountedOld(hunk_at_call.body))
        /\ HeaderFields(hunk.header).new_span = str(CountedNew(hunk_at_call.body))

C15_Witness ==
    /\ RepairApplied /\ ret
    /\ hunk_at_call.header = LineHdr12fn
    /\ hunk_at_call.body = <<LineCtx, LineAdd, LineAdd>>
    /\ hunk.header =
          <<"@", "@", " ", "-", "0", ",", "1", " ", "+", "0", ",", "3", " ", "@", "@",
            " ", "f", NL>>

\* ------------------------------------------------------ span invariant
\* C16: every hunk in the result of filter_or_repair_files, in either mode,
\* has a well-formed header whose old span is count(Context)+count(Removed)
\* of its body and whose new span is count(Context)+count(Added);
\* NoNewlineMarker and Unexpected lines count for neither.
C16_RetainedSpansMatch ==
    pc = "done" =>
        \A i \in 1..Len(repaired_files) :
            \A k \in 1..Len(repaired_files[i].hunks) :
                /\ HeaderOk(repaired_files[i].hunks[k].header)
                /\ SpansMatch(repaired_files[i].hunks[k])

C16_Witness ==
    /\ pc = "done" /\ mode = "apply-repairs"
    /\ Len(repaired_files) = 1 /\ Len(repaired_files[1].hunks) = 1
    /\ Len(repaired_files[1].hunks[1].body) = 2
    /\ HasUnexpected(repaired_files[1].hunks[1].body)
    /\ repaired_files[1].hunks[1].header # files[1].hunks[1].header

\* ------------------------------------------------------ empty body
EmptyBodyCase ==
    /\ pc = "returned"
    /\ HeaderOk(hunk_at_call.header)
    /\ hunk_at_call.body = <<>>

BothSpansZero(header) == DeclaredOld(header) = 0 /\ DeclaredNew(header) = 0

\* C18: a hunk with a well-formed header and no body lines makes
\* validate_hunk return true if and only if both spans of its header are 0.
C18_EmptyBodyValidIffZero ==
    EmptyBodyCase => (ret <=> BothSpansZero(hunk_at_call.header))

\* C18 (amended): with repairs disallowed, validate_hunk returns true for
\* such a hunk exactly when both declared spans are 0; with repairs allowed
\* it returns true for every such hunk, and the header then declares 0 and 0
\* (unchanged when it already did).
C18_EmptyBodyByMode ==
    EmptyBodyCase =>
        /\ ~allow_repairs => (ret <=> BothSpansZero(hunk_at_call.header))
        /\ allow_repairs => (ret /\ HeaderOk(hunk.header) /\ BothSpansZero(hunk.header))
        /\ (ret /\ hunk = hunk_at_call) <=> BothSpansZero(hunk_at_call.header)

C18_Witness ==
    /\ EmptyBodyCase /\ allow_repairs /\ ret
    /\ ~BothSpansZero(hunk_at_call.header)
    /\ hunk.header # hunk_at_call.header

\* ------------------------------------------------------ repair success
RepairFailedMessages ==
    {"Old span mismatch in hunk header (repair failed)",
     "New span mismatch in hunk header (repair failed)"}

\* C19: with repairs allowed, every hunk with a well-formed header whose
\* declared spans differ from the counted ones is rewritten and accepted, and
\* no event labelled "repair failed" is ever in the log.
C19_RepairNeverFails ==
    /\ \A k \in 1..Len(ACTION_PLAN) : ACTION_PLAN[k].message \notin RepairFailedMessages
    /\ (pc = "returned" /\ allow_repairs /\ HeaderOk(hunk_at_call.header)
            /\ ~SpansMatch(hunk_at_call)) =>
          /\ ret
          /\ hunk.header # hunk_at_call.header
          /\ SpansMatch(hunk)
          /\ HasCode("HUNK_VALID_AFTER_REPAIR")

C19_Witness ==
    /\ pc = "returned" /\ allow_repairs /\ ret
    /\ HeaderOk(hunk_at_call.header)
    /\ DeclaredOld(hunk_at_call.header) = CountedOld(hunk_at_call.body)
    /\ DeclaredNew(hunk_at_call.header) # CountedNew(hunk_at_call.body)
    /\ HasUnexpected(hunk_at_call.body)

\* ------------------------------------------------------------ parser
\* where the attachment rules put line k of L: the file is the number of file
\* markers up to k, the hunk the number of hunk markers since the last one
IsFileMarker(L, k) == startswith(L[k], DiffMarker)
IsHunkMarker(L, k) == ~IsFileMarker(L, k) /\ startswith(L[k], HunkMarker)
IsPlain(L, k) == ~IsFileMarker(L, k) /\ ~IsHunkMarker(L, k)
FileOf(L, k) == Cardinality({j \in 1..k : IsFileMarker(L, j)})
HunkOf(L, k) ==
    Cardinality({j \in 1..k : IsHunkMarker(L, j) /\ FileOf(L, j) = FileOf(L, k)})

\* the lines of L at the indices idx, in L's order
LinesAt(L, idx) ==
    LET nth(i) == CHOOSE k \in idx : Cardinality({j \in idx : j < k}) = i - 1
    IN  [i \in 1..Cardinality(idx) |-> L[nth(i)]]

ExpectedHunk(L, f, h) ==
    [header |-> LinesAt(L, {k \in 1..Len(L) :
                    IsHunkMarker(L, k) /\ FileOf(L, k) = f /\ HunkOf(L, k) = h})[1],
     body |-> LinesAt(L, {k \in 1..Len(L) :
                    IsPlain(L, k) /\ FileOf(L, k) = f /\ HunkOf(L, k) = h})]

ExpectedFile(L, f) ==
    [header |-> LinesAt(L, {k \in 1..Len(L) :
                    IsFileMarker(L, k) /\ FileOf(L, k) = f})[1],
     headers |-> LinesAt(L, {k \in 1..Len(L) :
                    IsPlain(L, k) /\ FileOf(L, k) = f /\ HunkOf(L, k) = 0}),
     hunks |-> [h \in 1..Cardinality({k \in 1..Len(L) :
                        IsHunkMarker(L, k) /\ FileOf(L, k) = f})
                    |-> ExpectedHunk(L, f, h)]]

\* C17: parse_diff attaches every line by the rules: a file marker starts a
\* file, a hunk marker a hunk of the current file, any other line goes to the
\* open hunk of the current file or else to that file's auxiliary headers,
\* and every line before the first file marker (a hunk marker too) is logged
\* as an orphan and attached to nothing; no line after a file marker lands
\* in a hunk of an earlier file.
C17_ParserAttachment ==
    pc = "parsed" =>
        /\ files = [f \in 1..Cardinality({k \in 1..Len(cleaned_lines) :
                                            IsFileMarker(cleaned_lines, k)})
                        |-> ExpectedFile(cleaned_lines, f)]
        /\ CountCode("PARSE_ORPHAN_LINE") =
              Cardinality({k \in 1..Len(cleaned_lines) : FileOf(cleaned_lines, k) = 0})

C17_Witness ==
    /\ pc = "parsed"
    /\ Len(files) = 2
    /\ Len(files[1].hunks) = 1 /\ files[1].hunks[1].body = <<>>
    /\ files[2].headers = <<LineCtx>> /\ files[2].hunks = <<>>

\* --------------------------------------------------------- event log
\* C20: every step of an iterative run leaves the entries already in the log
\* as they are and only appends; each new entry carries the index of the
\* round that created it, and the iteration values never decrease along
\* the log.
C20_LogAppendOnly ==
    [][/\ Len(ACTION_PLAN') >= Len(ACTION_PLAN)
       /\ SubSeq(ACTION_PLAN', 1, Len(ACTION_PLAN)) = ACTION_PLAN
       /\ \A k \in (Len(ACTION_PLAN) + 1)..Len(ACTION_PLAN') :
              ACTION_PLAN'[k].iteration = iteration'
       /\ \A k \in 1..(Len(ACTION_PLAN') - 1) :
              ACTION_PLAN'[k].iteration <= ACTION_PLAN'[k + 1].iteration]_vars

C20_Witness ==
    /\ pc = "done" /\ iteration = 2
    /\ {ACTION_PLAN[k].iteration : k \in 1..Len(ACTION_PLAN)} = {0, 1, 2}
    /\ ACTION_PLAN[Len(ACTION_PLAN)].code = "PLAN_SUMMARY"
    /\ ACTION_PLAN[Len(ACTION_PLAN)].iteration = 2

\* ------------------------------------------------- parse/render round trip
\* the characters of the lines of L from its first file marker onward
RECURSIVE TextFromFirstMarker(_, _)
TextFromFirstMarker(L, k) ==
    IF k > Len(L) THEN <<>>
    ELSE (IF FileOf(L, k) >= 1 THEN L[k] ELSE <<>>) \o TextFromFirstMarker(L, k + 1)

\* C21: render_patch applied to parse_diff(L), with no validation between,
\* gives the concatenation of the lines of L from the first file marker
\* onward, and the empty text when L has no file marker.
C21_ParseRenderRoundTrip ==
    pc = "rendered" => new_patch_text = TextFromFirstMarker(cleaned_lines, 1)

C21_Witness ==
    /\ pc = "rendered"
    /\ cleaned_lines = <<LineOops, LineDiffA, LineCtx, LineHdr11>>
    /\ new_patch_text = LineDiffA \o LineCtx \o LineHdr11

\* ------------------------------------------------- bounded convergence
\* C22: the third pass renders the text the second pass rendered: no run
\* starts a round after round 2, round 2 always ends with
\* ITERATION_NO_PROGRESS, and with the oracle disabled and max_iterations >= 3
\* every run ends by ITERATION_NO_PROGRESS with iterations_run <= 3.
C22_ConvergesByThirdPass ==
    /\ iteration <= 2
    /\ iteration = 2 =>
          /\ last_patch_text = Some(new_patch_text)
          /\ pc \in {"break_no_progress", "done"}
          /\ HasCode("ITERATION_NO_PROGRESS")
    /\ (pc = "done" /\ ~validate_with_git /\ max_iterations >= 3) =>
          /\ HasCode("ITERATION_NO_PROGRESS")
          /\ summary[1].iterations_run <= 3

C22_Witness ==
    /\ pc = "done" /\ ~validate_with_git /\ max_iterations >= 3
    /\ iteration = 2 /\ summary[1].iterations_run = 3
    /\ new_patch_text # original
    /\ HasCode("HUNK_HEADER_SPAN_REPAIRED")

\* ------------------------------------------------- kinds under cleaning
\* the kind _count_body_lines gives a line: the counter it increments, the
\* flag it sets, or neither (the no-newline marker)
KindCounted(line) ==
    LET c == count_body_lines([header |-> <<>>, body |-> <<line>>])
    IN  IF c.context = 1 THEN "Context"
        ELSE IF c.removed = 1 THEN "Removed"
        ELSE IF c.added = 1 THEN "Added"
        ELSE IF c.has_unexpected THEN "Unexpected"
        ELSE "NoNewlineMarker"

\* the lines of the text that basic_clean normalises: those left after the
\* preamble is stripped
LinesToNormalise(text) ==
    LET ls == splitlines(text)
        first == firstDiffFrom(ls, 1)
    IN  IF first > 1 THEN SubSeq(ls, first, Len(ls)) ELSE ls

\* C23: every line basic_clean returns has the kind that _count_body_lines
\* gives the original line it was normalised from; a blank context line (one
\* space) is still Context after cleaning.
C23_CleanKeepsKinds ==
    pc = "returned" =>
        \A k \in 1..Len(cleaned_lines) :
            KindCounted(cleaned_lines[k]) = KindCounted(LinesToNormalise(original)[k])
====
